---- MODULE Spec2Model ----
(***************************************************************************)
(* git-analyzer (src/main.rs): walk the history of a repository, build one *)
(* GitLogEntry per commit (with the per-file status and line counts of     *)
(* one-parent commits), write the entries to two SQLite tables and read    *)
(* them back through an inner join.                                        *)
(*                                                                         *)
(* Text is modelled as sequences of one-character strings, so that the     *)
(* regular expression, trim, split and parse of process_numberstats are    *)
(* computed character by character.                                        *)
(***************************************************************************)
EXTENDS Integers, Sequences, FiniteSets, Bags, TLC

VARIABLES
    repo,              \* the repository on disk: parents, commit seconds, head
    pc,                \* position of the program: open, walk, returned, write, done, error, panic
    revwalk,           \* the ids the Revwalk iterator has still to yield
    vec,               \* walk_history's Vec<GitLogEntry>
    result,            \* walk_history's return value: "none" (not returned), "Ok", "Err"
    failure,           \* first failure the repository reader reported during the walk
    diff,              \* the diff read by the last loop iteration (None when it read none)
    files_map,         \* the loop's files_map after the last iteration
    new_files_map,     \* what process_numberstats returned to the last iteration
    commits_tbl,       \* relation commits, a bag of rows
    commit_files_tbl,  \* relation commit_files, a bag of rows
    wi,                \* main: number of entries of vec whose commits row is inserted
    wfiles,            \* main: files of the current entry still to insert
    out                \* main: the QueryResult rows read back, a bag

vars == <<repo, pc, revwalk, vec, result, failure, diff, files_map, new_files_map,
          commits_tbl, commit_files_tbl, wi, wfiles, out>>

----------------------------------------------------------------------------
(* Bounds of the model. *)

MaxCommits == 3
MaxSeconds == 1
MaxDeltas == 2
MaxLines == 2

(* Largest i32, the type parse_int parses into. *)
I32Max == 2147483647

----------------------------------------------------------------------------
(* Option<T>: None is the empty tuple, Some(x) a one-element tuple. *)

None == <<>>
Some(x) == <<x>>

----------------------------------------------------------------------------
(* Characters. *)

DigitChars == <<"0", "1", "2", "3", "4", "5", "6", "7", "8", "9">>

\* \d of the regular expression (the ASCII digits of the model's alphabet)
Digit == {DigitChars[i] : i \in 1..10}

\* [ ] of the regular expression: the space character only
SepChar == {" "}

\* white space: what \S excludes and what str::trim strips
WhiteSpace == {" ", "\t", "\n", "\r"}

DigitVal(c) == (CHOOSE i \in 1..10 : DigitChars[i] = c) - 1

\* s[from..to], empty when from > to
Slice(s, from, to) == SubSeq(s, from, to)

\* number of consecutive characters of s, from position i on, that are in class C
RECURSIVE RunIn(_, _, _)
RunIn(s, i, C) ==
    IF i > Len(s) \/ s[i] \notin C THEN 0 ELSE 1 + RunIn(s, i + 1, C)

\* number of consecutive characters of s, from position i on, that are not in class C
RECURSIVE RunNotIn(_, _, _)
RunNotIn(s, i, C) ==
    IF i > Len(s) \/ s[i] \in C THEN 0 ELSE 1 + RunNotIn(s, i + 1, C)

----------------------------------------------------------------------------
(* Regex ^(\d+)[ ]+(\d+)[ ]+(\S+)$ : None, or Some of the three captures.   *)
(* The classes that follow one another are disjoint, so each run is the    *)
(* maximal one and the match is unique.                                    *)

regex_captures(line, digit) ==
    LET n1 == RunIn(line, 1, digit)
        s1 == RunIn(line, 1 + n1, SepChar)
        n2 == RunIn(line, 1 + n1 + s1, digit)
        s2 == RunIn(line, 1 + n1 + s1 + n2, SepChar)
        p3 == 1 + n1 + s1 + n2 + s2
        n3 == RunNotIn(line, p3, WhiteSpace)
    IN  IF n1 >= 1 /\ s1 >= 1 /\ n2 >= 1 /\ s2 >= 1 /\ n3 >= 1
           /\ p3 + n3 - 1 = Len(line)
        THEN Some(<<Slice(line, 1, n1),
                    Slice(line, 1 + n1 + s1, n1 + s1 + n2),
                    Slice(line, p3, Len(line))>>)
        ELSE None

\* variant: the count groups also take the "-" of a binary file's line
re_captures_dash(line) == regex_captures(line, Digit \cup {"-"})

re_captures(line) == regex_captures(line, Digit)

----------------------------------------------------------------------------
(* str::parse::<i32> on a digit string, with parse_int's fallback: the     *)
(* value, or -1 when the text is empty, holds a non-digit or exceeds i32.  *)

RECURSIVE ParseFrom(_, _, _)
ParseFrom(s, i, acc) ==
    IF i > Len(s) THEN acc
    ELSE IF s[i] \notin Digit THEN -1
    ELSE IF acc > (I32Max - DigitVal(s[i])) \div 10 THEN -1
    ELSE ParseFrom(s, i + 1, acc * 10 + DigitVal(s[i]))

parse_int(input) ==
    IF Len(input) = 0 THEN -1 ELSE ParseFrom(input, 1, 0)

----------------------------------------------------------------------------
(* str::trim and str::split("\n") *)

TrimStart(s) == Slice(s, 1 + RunIn(s, 1, WhiteSpace), Len(s))

RECURSIVE TrimEnd(_)
TrimEnd(s) ==
    IF Len(s) > 0 /\ s[Len(s)] \in WhiteSpace THEN TrimEnd(Slice(s, 1, Len(s) - 1)) ELSE s

trim(s) == TrimEnd(TrimStart(s))

\* the pieces of s between the "\n" characters; the empty text gives one empty piece
RECURSIVE split(_)
split(s) ==
    LET n == RunNotIn(s, 1, {"\n"})
    IN  IF n = Len(s) THEN <<s>>
        ELSE <<Slice(s, 1, n)>> \o split(Slice(s, n + 2, Len(s)))

----------------------------------------------------------------------------
(* FileInfo, and maps keyed by path (HashMap<String, FileInfo>). *)

FileInfo(path, status, added_lines, removed_lines) ==
    [path |-> path, status |-> status,
     added_lines |-> added_lines, removed_lines |-> removed_lines]

EmptyMap == [k \in {} |-> None]

\* HashMap::insert: the value of an existing key is replaced
Insert(m, k, v) == [x \in DOMAIN m \cup {k} |-> IF x = k THEN v ELSE m[x]]

\* HashMap::values
Values(m) == {m[k] : k \in DOMAIN m}

----------------------------------------------------------------------------
(* get_diff_delta_status: the label of a git2::Delta variant. *)

DeltaVariants ==
    {"Delta::Added", "Delta::Unmodified", "Delta::Deleted", "Delta::Modified",
     "Delta::Copied", "Delta::Ignored", "Delta::Untracked", "Delta::Typechange",
     "Delta::Unreadable", "Delta::Conflicted", "Delta::Renamed"}

get_diff_delta_status(delta) ==
    CASE delta.status = "Delta::Added" -> "Added"
      [] delta.status = "Delta::Unmodified" -> "Unmodified"
      [] delta.status = "Delta::Deleted" -> "Deleted"
      [] delta.status = "Delta::Modified" -> "Modified"
      [] delta.status = "Delta::Copied" -> "Copied"
      [] delta.status = "Delta::Ignored" -> "Ignored"
      [] delta.status = "Delta::Untracked" -> "Untracked"
      [] delta.status = "Delta::Typechange" -> "Typechange"
      [] delta.status = "Delta::Unreadable" -> "Unreadable"
      [] delta.status = "Delta::Conflicted" -> "Conflicted"
      [] delta.status = "Delta::Renamed" -> "Renamed"

----------------------------------------------------------------------------
(* A diff as the repository reader hands it over: its deltas (new-file     *)
(* path and status of each) and the bytes diff.stats().to_buf(NUMBER)      *)
(* renders, with whether they are valid UTF-8.                             *)

Delta(path, status) == [path |-> path, status |-> status]

Diff(deltas, buf, utf8) == [deltas |-> deltas, buf |-> buf, utf8 |-> utf8]

\* the loop over diff.deltas(): files_map with a count-less FileInfo per path
RECURSIVE status_map(_, _)
status_map(deltas, acc) ==
    IF deltas = <<>> THEN acc
    ELSE LET delta == Head(deltas)
         IN  status_map(Tail(deltas),
                        Insert(acc, delta.path,
                               FileInfo(delta.path, get_diff_delta_status(delta), None, None)))

\* one iteration of the loop over the lines of the numeric summary
numberstats_line(result_map, line, fm) ==
    LET captures == re_captures(line)
    IN  IF captures = None THEN result_map
        ELSE LET caps == captures[1]
                 added == caps[1]
                 removed == caps[2]
                 path == caps[3]
             IN  IF path \in DOMAIN fm
                 THEN Insert(result_map, path,
                             FileInfo(fm[path].path, fm[path].status,
                                      Some(parse_int(added)), Some(parse_int(removed))))
                 ELSE result_map

RECURSIVE numberstats_lines(_, _, _)
numberstats_lines(result_map, lines, fm) ==
    IF lines = <<>> THEN result_map
    ELSE numberstats_lines(numberstats_line(result_map, Head(lines), fm), Tail(lines), fm)

\* the text process_numberstats works on, and its lines
numberstats_text(d) == IF d.utf8 THEN d.buf ELSE <<>>

numberstats_split(d) == split(trim(numberstats_text(d)))

\* process_numberstats when diff.stats() and to_buf succeed: the returned map
process_numberstats(d, fm) == numberstats_lines(EmptyMap, numberstats_split(d), fm)

\* variant: files_map is replaced by new_files_map
merge_numberstats_replace(fm, nfm) == nfm

\* the loop over new_files_map.values(): each value replaces files_map's entry of its path
merge_numberstats(fm, nfm) ==
    [p \in DOMAIN fm \cup {f.path : f \in Values(nfm)} |->
        IF \E f \in Values(nfm) : f.path = p
        THEN CHOOSE f \in Values(nfm) : f.path = p
        ELSE fm[p]]

\* the locals of an iteration that reads diff d of the commit against its parent
diff_locals(d) ==
    LET fm == status_map(d.deltas, EmptyMap)
        nfm == process_numberstats(d, fm)
    IN  [diff |-> Some(d), files_map |-> merge_numberstats(fm, nfm), new_files_map |-> nfm]

\* the locals of an iteration that reads no diff
no_diff_locals == [diff |-> None, files_map |-> EmptyMap, new_files_map |-> EmptyMap]

\* variant: a merge commit is diffed against its first parent
loop_locals_merges(n, D) == IF n >= 1 THEN {diff_locals(d) : d \in D} ELSE {no_diff_locals}

\* the locals an iteration can end with, for a commit with n parents, when D are
\* the diffs the repository reader may hand over
loop_locals(n, D) == IF n = 1 THEN {diff_locals(d) : d \in D} ELSE {no_diff_locals}

----------------------------------------------------------------------------
(* convert_git_time_to_datetime: epoch seconds of the DateTime<Utc>. *)

convert_git_time_to_datetime(seconds, offset_minutes) == seconds + offset_minutes * 60

GitLogEntry(id, author_when, files) ==
    [id |-> id, author_when |-> author_when, files |-> files]

----------------------------------------------------------------------------
(* The repository: commits 1..n, each with its parent set and its commit   *)
(* time in seconds; a parent has a smaller number than its child.          *)

Commits(r) == DOMAIN r.parents

parent_count(r, c) == Cardinality(r.parents[c])

Repos ==
    {[parents |-> p, seconds |-> s, head |-> h] :
        p \in {q \in [1..MaxCommits -> SUBSET (1..MaxCommits)] :
                  \A c \in 1..MaxCommits : q[c] \subseteq 1..(c - 1)},
        s \in [1..MaxCommits -> 0..MaxSeconds],
        h \in 1..MaxCommits}

\* the time-zone offsets, in minutes, a commit's time may carry
OffsetMinutes == {0, 60}

\* the commits push_head makes the walk visit: head and its ancestors
RECURSIVE Ancestors(_, _)
Ancestors(r, S) ==
    LET n == S \cup UNION {r.parents[c] : c \in S}
    IN  IF n = S THEN S ELSE Ancestors(r, n)

Reachable(r) == Ancestors(r, {r.head})

\* every order in which an iterator can yield the elements of S once each
Orders(S) ==
    {s \in [1..Cardinality(S) -> S] : \A i, j \in DOMAIN s : i # j => s[i] # s[j]}

\* Sort::TIME | Sort::REVERSE: by commit seconds, oldest first; ties in any order
TimeOrders(r) ==
    {s \in Orders(Reachable(r)) :
        \A i, j \in DOMAIN s : i < j => r.seconds[s[i]] <= r.seconds[s[j]]}

\* the iterator's order when no sorting was set: newest first
DefaultOrders(r) ==
    {s \in Orders(Reachable(r)) :
        \A i, j \in DOMAIN s : i < j => r.seconds[s[i]] >= r.seconds[s[j]]}

----------------------------------------------------------------------------
(* The diffs the repository reader may hand over. *)

PathA == <<"a">>
PathMain == <<"s", "r", "c", "/", "m", "a", "i", "n", ".", "g", "o">>
PathBin == <<"b", "i", "n", "a", "r", "y", ".", "b", "i", "n">>
PathSp == <<"m", " ", "f">>

LineTabMain == <<"3", "\t", "1", "\t", "s", "r", "c", "/", "m", "a", "i", "n", ".", "g", "o">>
LineTabBin == <<"-", "\t", "-", "\t", "b", "i", "n", "a", "r", "y", ".", "b", "i", "n">>
LinePadBin == <<"-", " ", " ", " ", " ", " ", " ", " ", "-", " ", " ", " ", " ", " ", " ", " ", "b", "i", "n", "a", "r", "y", ".", "b", "i", "n">>
LineA50 == <<"5", " ", "0", " ", "a">>
LineAOverflow == <<"2", "1", "4", "7", "4", "8", "3", "6", "4", "8", " ", "1", " ", "a">>
LineSp == <<"1", " ", "1", " ", "m", " ", "f">>
LineUnknown == <<"7", " ", "7", " ", "z", "z">>

DeltaUniverse ==
    {Delta(PathA, "Delta::Added"), Delta(PathMain, "Delta::Modified"),
     Delta(PathBin, "Delta::Added"), Delta(PathSp, "Delta::Renamed")}

LineUniverse ==
    {LineTabMain, LineTabBin, LinePadBin, LineA50, LineAOverflow, LineSp, LineUnknown}

SeqsUpTo(S, n) == UNION {[1..k -> S] : k \in 0..n}

\* the summary text of the given lines, each ended by a line feed
RECURSIVE Text(_)
Text(lines) ==
    IF lines = <<>> THEN <<>> ELSE Head(lines) \o <<"\n">> \o Text(Tail(lines))

\* every diff of at most MaxDeltas deltas and MaxLines summary lines
AllDiffs ==
    {Diff(ds, Text(ls), TRUE) : ds \in SeqsUpTo(DeltaUniverse, MaxDeltas),
                                ls \in SeqsUpTo(LineUniverse, MaxLines)}
    \cup {Diff(ds, Text(<<LineA50>>), FALSE) : ds \in SeqsUpTo(DeltaUniverse, 1)}

\* the diff of the runs over whole histories: one file with counts 5 and 0,
\* one binary file
WalkDiffs ==
    {Diff(<<Delta(PathA, "Delta::Added"), Delta(PathBin, "Delta::Added")>>,
          Text(<<LineA50, LinePadBin>>), TRUE)}

\* a history of one root commit and one child of it
DiffRepo == [parents |-> <<{}, {1}>>, seconds |-> <<0, 1>>, head |-> 2]

----------------------------------------------------------------------------
(* SQLite values, and the conversions of Option<i32> to and from them. *)

SqlNull == <<"NULL">>
SqlInteger(n) == <<"INTEGER", n>>

\* variant: an absent count is stored as 0
to_sql_zero(opt) == IF opt = None THEN SqlInteger(0) ELSE SqlInteger(opt[1])

\* ToSql for Option<i32>
to_sql(opt) == IF opt = None THEN SqlNull ELSE SqlInteger(opt[1])

\* FromSql for Option<i32> (row.get)
from_sql(v) == IF v = SqlNull THEN None ELSE Some(v[2])

commits_row(entry) == [id |-> entry.id, author_when |-> entry.author_when]

commit_files_row(id, file) ==
    [id |-> id, name |-> file.path, status |-> file.status,
     added |-> to_sql(file.added_lines), deleted |-> to_sql(file.removed_lines)]

QueryResult(c, f) ==
    [id |-> c.id, author_when |-> c.author_when, path |-> f.name, status |-> f.status,
     added |-> from_sql(f.added), deleted |-> from_sql(f.deleted)]

\* SELECT ... FROM commits INNER JOIN commit_files ON commits.id = commit_files.id
inner_join(ct, ft) ==
    LET pairs == {x \in BagToSet(ct) \X BagToSet(ft) : x[1].id = x[2].id}
        rows == {QueryResult(x[1], x[2]) : x \in pairs}
        copies(q) ==
            LET x == CHOOSE y \in pairs : QueryResult(y[1], y[2]) = q
            IN  CopiesIn(x[1], ct) * CopiesIn(x[2], ft)
    IN  [q \in rows |-> copies(q)]

----------------------------------------------------------------------------
(* The program. *)

first_failure(kind) == IF failure = "none" THEN kind ELSE failure

InitWith(r) ==
    /\ repo = r
    /\ pc = "open"
    /\ revwalk = <<>>
    /\ vec = <<>>
    /\ result = "none"
    /\ failure = "none"
    /\ diff = None
    /\ files_map = EmptyMap
    /\ new_files_map = EmptyMap
    /\ commits_tbl = EmptyBag
    /\ commit_files_tbl = EmptyBag
    /\ wi = 0
    /\ wfiles = {}
    /\ out = EmptyBag

Init == \E r \in Repos : InitWith(r)

InitDiff == InitWith(DiffRepo)

\* walk_history returns Err(e): its locals, vec included, are dropped
ReturnErr(kind) ==
    /\ pc' = "returned"
    /\ result' = "Err"
    /\ failure' = first_failure(kind)
    /\ vec' = <<>>
    /\ revwalk' = <<>>
    /\ diff' = None
    /\ files_map' = EmptyMap
    /\ new_files_map' = EmptyMap
    /\ UNCHANGED <<repo, commits_tbl, commit_files_tbl, wi, wfiles, out>>

\* Repository::open, repo.revwalk() or revwalk.push_head() fails: `?` returns the error
OpenFail ==
    /\ pc = "open"
    /\ \E kind \in {"open", "revwalk", "push_head"} : ReturnErr(kind)

\* variant: push_head is left out, the walk has no starting point
OpenSorted_no_push ==
    /\ pc = "open"
    /\ revwalk' = <<>>
    /\ pc' = "walk"
    /\ UNCHANGED <<repo, vec, result, failure, diff, files_map, new_files_map,
                   commits_tbl, commit_files_tbl, wi, wfiles, out>>

\* the walk is set up and set_sorting succeeds
OpenSorted ==
    /\ pc = "open"
    /\ revwalk' \in TimeOrders(repo)
    /\ pc' = "walk"
    /\ UNCHANGED <<repo, vec, result, failure, diff, files_map, new_files_map,
                   commits_tbl, commit_files_tbl, wi, wfiles, out>>

\* the walk is set up and set_sorting fails: `let _ =` drops the error, and the
\* walk goes on in the order the iterator has without a sorting
OpenUnsorted ==
    /\ pc = "open"
    /\ revwalk' \in DefaultOrders(repo)
    /\ pc' = "walk"
    /\ failure' = first_failure("set_sorting")
    /\ UNCHANGED <<repo, vec, result, diff, files_map, new_files_map,
                   commits_tbl, commit_files_tbl, wi, wfiles, out>>

\* one iteration of the loop body with every read succeeding
WalkStep(D, O) ==
    /\ pc = "walk"
    /\ revwalk # <<>>
    /\ LET c == Head(revwalk)
           n == parent_count(repo, c)
       IN  \E off \in O, locals \in loop_locals(n, D) :
                 /\ vec' = Append(vec,
                        GitLogEntry(c,
                                    convert_git_time_to_datetime(repo.seconds[c], off),
                                    Values(locals.files_map)))
                 /\ diff' = locals.diff
                 /\ files_map' = locals.files_map
                 /\ new_files_map' = locals.new_files_map
    /\ revwalk' = Tail(revwalk)
    /\ UNCHANGED <<repo, pc, result, failure, commits_tbl, commit_files_tbl, wi, wfiles, out>>

\* variant: the error ends the loop and the entries built so far are returned
WalkRevFail_partial ==
    /\ pc = "walk"
    /\ revwalk # <<>>
    /\ \E kind \in {"next", "find_commit"} : failure' = first_failure(kind)
    /\ result' = "Ok"
    /\ pc' = "returned"
    /\ revwalk' = <<>>
    /\ diff' = None
    /\ files_map' = EmptyMap
    /\ new_files_map' = EmptyMap
    /\ UNCHANGED <<repo, vec, commits_tbl, commit_files_tbl, wi, wfiles, out>>

\* the iterator yields an error, or find_commit fails: `?` returns the error
WalkRevFail ==
    /\ pc = "walk"
    /\ revwalk # <<>>
    /\ \E kind \in {"next", "find_commit"} : ReturnErr(kind)

\* commit.parent(0), a tree() or diff_tree_to_tree fails: `?` returns the error
WalkDiffFail ==
    /\ pc = "walk"
    /\ revwalk # <<>>
    /\ parent_count(repo, Head(revwalk)) = 1
    /\ \E kind \in {"parent", "tree", "diff_tree_to_tree"} : ReturnErr(kind)

\* diff.stats() or to_buf fails: process_numberstats returns Err and the
\* caller's unwrap() panics
WalkStatsFail ==
    /\ pc = "walk"
    /\ revwalk # <<>>
    /\ parent_count(repo, Head(revwalk)) = 1
    /\ \E kind \in {"stats", "to_buf"} : failure' = first_failure(kind)
    /\ pc' = "panic"
    /\ UNCHANGED <<repo, revwalk, vec, result, diff, files_map, new_files_map,
                   commits_tbl, commit_files_tbl, wi, wfiles, out>>

\* the iterator is exhausted: return Ok(vec); the loop's locals are gone
WalkReturn ==
    /\ pc = "walk"
    /\ revwalk = <<>>
    /\ result' = "Ok"
    /\ pc' = "returned"
    /\ diff' = None
    /\ files_map' = EmptyMap
    /\ new_files_map' = EmptyMap
    /\ UNCHANGED <<repo, revwalk, vec, failure, commits_tbl, commit_files_tbl, wi, wfiles, out>>

\* main: walk_history(repo_path).unwrap()
MainUnwrap ==
    /\ pc = "returned"
    /\ pc' = IF result = "Ok" THEN "write" ELSE "panic"
    /\ UNCHANGED <<repo, revwalk, vec, result, failure, diff, files_map, new_files_map,
                   commits_tbl, commit_files_tbl, wi, wfiles, out>>

\* main: INSERT INTO commits for the next entry; the UNIQUE id makes a second
\* row of the same id fail
InsertCommit ==
    /\ pc = "write"
    /\ wfiles = {}
    /\ wi < Len(vec)
    /\ LET commit == vec[wi + 1]
       IN  IF \E r \in BagToSet(commits_tbl) : r.id = commit.id
           THEN /\ pc' = "error"
                /\ UNCHANGED <<commits_tbl, wi, wfiles>>
           ELSE /\ commits_tbl' = commits_tbl (+) SetToBag({commits_row(commit)})
                /\ wi' = wi + 1
                /\ wfiles' = commit.files
                /\ pc' = pc
    /\ UNCHANGED <<repo, revwalk, vec, result, failure, diff, files_map, new_files_map,
                   commit_files_tbl, out>>

\* main: INSERT INTO commit_files for one more file of the current entry
InsertFile ==
    /\ pc = "write"
    /\ wfiles # {}
    /\ \E file \in wfiles :
          /\ commit_files_tbl' =
                 commit_files_tbl (+) SetToBag({commit_files_row(vec[wi].id, file)})
          /\ wfiles' = wfiles \ {file}
    /\ UNCHANGED <<repo, pc, revwalk, vec, result, failure, diff, files_map, new_files_map,
                   commits_tbl, wi, out>>

\* main: an INSERT fails and `?` returns the error
SinkFail ==
    /\ pc = "write"
    /\ wi < Len(vec) \/ wfiles # {}
    /\ pc' = "error"
    /\ UNCHANGED <<repo, revwalk, vec, result, failure, diff, files_map, new_files_map,
                   commits_tbl, commit_files_tbl, wi, wfiles, out>>

\* main: the SELECT over the join, each row read into a QueryResult
Query ==
    /\ pc = "write"
    /\ wfiles = {}
    /\ wi = Len(vec)
    /\ out' = inner_join(commits_tbl, commit_files_tbl)
    /\ pc' = "done"
    /\ UNCHANGED <<repo, revwalk, vec, result, failure, diff, files_map, new_files_map,
                   commits_tbl, commit_files_tbl, wi, wfiles>>

Next ==
    \/ OpenFail
    \/ OpenSorted
    \/ OpenUnsorted
    \/ WalkStep(WalkDiffs, OffsetMinutes)
    \/ WalkRevFail
    \/ WalkDiffFail
    \/ WalkStatsFail
    \/ WalkReturn
    \/ MainUnwrap
    \/ InsertCommit
    \/ InsertFile
    \/ SinkFail
    \/ Query

Spec == Init /\ [][Next]_vars

\* the same program over the same histories, every commit time in UTC
NextUtc ==
    \/ OpenFail
    \/ OpenSorted
    \/ OpenUnsorted
    \/ WalkStep(WalkDiffs, {0})
    \/ WalkRevFail
    \/ WalkDiffFail
    \/ WalkStatsFail
    \/ WalkReturn
    \/ MainUnwrap
    \/ InsertCommit
    \/ InsertFile
    \/ SinkFail
    \/ Query

SpecUtc == Init /\ [][NextUtc]_vars

\* the same program over one two-commit history, with every diff of AllDiffs
NextDiff ==
    \/ OpenFail
    \/ OpenSorted
    \/ OpenUnsorted
    \/ WalkStep(AllDiffs, {0})
    \/ WalkRevFail
    \/ WalkDiffFail
    \/ WalkStatsFail
    \/ WalkReturn
    \/ MainUnwrap
    \/ InsertCommit
    \/ InsertFile
    \/ SinkFail
    \/ Query

SpecDiff == InitDiff /\ [][NextDiff]_vars

TypeOK ==
    /\ pc \in {"open", "walk", "returned", "write", "done", "error", "panic"}
    /\ result \in {"none", "Ok", "Err"}
    /\ wi \in 0..Len(vec)

----------------------------------------------------------------------------
(* Vocabulary of the properties. *)

\* the closed set of status labels
StatusLabels ==
    {"Added", "Modified", "Deleted", "Renamed", "Copied", "Typechange", "Unmodified",
     "Ignored", "Untracked", "Unreadable", "Conflicted"}

VecIds == {vec[i].id : i \in DOMAIN vec}

\* the entry the last loop iteration pushed
LastEntry == vec[Len(vec)]

\* the paths of the status mapping of diff d, and the label of path p in it
StatusPaths(d) == {d.deltas[i].path : i \in DOMAIN d.deltas}

StatusOf(d, p) ==
    LET last == CHOOSE i \in DOMAIN d.deltas :
                    /\ d.deltas[i].path = p
                    /\ \A j \in DOMAIN d.deltas : d.deltas[j].path = p => j <= i
    IN  get_diff_delta_status(d.deltas[last])

\* the line grammar <digits><whitespace run><digits><whitespace run><path>, the
\* runs of spaces or tabs, the path the rest of the line: None, or Some of
\* the two digit fields and the path
grammar_fields(line) ==
    LET blank == {" ", "\t"}
        n1 == RunIn(line, 1, Digit)
        w1 == RunIn(line, 1 + n1, blank)
        n2 == RunIn(line, 1 + n1 + w1, Digit)
        w2 == RunIn(line, 1 + n1 + w1 + n2, blank)
        p3 == 1 + n1 + w1 + n2 + w2
    IN  IF n1 >= 1 /\ w1 >= 1 /\ n2 >= 1 /\ w2 >= 1 /\ p3 <= Len(line)
        THEN Some(<<Slice(line, 1, n1),
                    Slice(line, 1 + n1 + w1, n1 + w1 + n2),
                    Slice(line, p3, Len(line))>>)
        ELSE None

\* the last field of a line that is not of the grammar: what follows its
\* second run of spaces or tabs (binary.bin in "-\t-\tbinary.bin")
trailing_path(line) ==
    LET blank == {" ", "\t"}
        n1 == RunNotIn(line, 1, blank)
        w1 == RunIn(line, 1 + n1, blank)
        n2 == RunNotIn(line, 1 + n1 + w1, blank)
        w2 == RunIn(line, 1 + n1 + w1 + n2, blank)
    IN  Slice(line, 1 + n1 + w1 + n2 + w2, Len(line))

\* the value of a digit string of at most nine digits
RECURSIVE DecimalValue(_)
DecimalValue(digits) ==
    IF digits = <<>> THEN 0
    ELSE 10 * DecimalValue(Slice(digits, 1, Len(digits) - 1)) + DigitVal(digits[Len(digits)])

\* the lines of a sequence that are of the grammar, in order
RECURSIVE grammar_lines(_)
grammar_lines(lines) ==
    IF lines = <<>> THEN <<>>
    ELSE (IF grammar_fields(Head(lines)) # None THEN <<Head(lines)>> ELSE <<>>)
         \o grammar_lines(Tail(lines))

RECURSIVE FileCount(_)
FileCount(n) == IF n = 0 THEN 0 ELSE Cardinality(vec[n].files) + FileCount(n - 1)

----------------------------------------------------------------------------
(* C1: in the sequence walk_history builds, every entry of a commit with 0 *)
(* parents or with 2 or more parents has an empty files list; only a       *)
(* commit with exactly one parent can have file records.                   *)

C1_RootAndMergeHaveNoFiles ==
    \A i \in DOMAIN vec : parent_count(repo, vec[i].id) # 1 => vec[i].files = {}

C1_Witness ==
    /\ result = "Ok"
    /\ \E i, j, k \in DOMAIN vec :
          /\ parent_count(repo, vec[i].id) = 0 /\ vec[i].files = {}
          /\ parent_count(repo, vec[j].id) >= 2 /\ vec[j].files = {}
          /\ parent_count(repo, vec[k].id) = 1 /\ vec[k].files # {}

----------------------------------------------------------------------------
(* C2: when every read succeeded and walk_history returned Ok, author_when *)
(* of each entry is less than or equal to author_when of the next one.     *)

C2_AuthorWhenAscending ==
    (result = "Ok" /\ failure = "none") =>
        \A i \in 1..(Len(vec) - 1) : vec[i].author_when <= vec[i + 1].author_when

----------------------------------------------------------------------------
(* C3: every file record of a one-parent commit has a status of the closed *)
(* label set, and its added and removed counts are both absent or both     *)
(* non-negative; no record carries a negative count.  Stated for the runs  *)
(* in which every read succeeds.                                           *)

C3_CountsAbsentOrNonNegative ==
    \A i \in DOMAIN vec :
        (failure = "none" /\ parent_count(repo, vec[i].id) = 1) =>
            \A f \in vec[i].files :
                /\ f.status \in StatusLabels
                /\ \/ f.added_lines = None /\ f.removed_lines = None
                   \/ /\ f.added_lines # None /\ f.removed_lines # None
                      /\ f.added_lines[1] >= 0 /\ f.removed_lines[1] >= 0

----------------------------------------------------------------------------
(* C4: when walk_history returns Ok, the sequence holds exactly one entry  *)
(* per commit reachable from head: no id twice, head in it, the parents of *)
(* every commit in it also in it, every other commit in it a parent of one *)
(* in it, and as many entries as there are reachable commits.              *)

C4_OneEntryPerReachableCommit ==
    result = "Ok" =>
        /\ \A i, j \in DOMAIN vec : i # j => vec[i].id # vec[j].id
        /\ repo.head \in VecIds
        /\ \A c \in VecIds : repo.parents[c] \subseteq VecIds
        /\ \A c \in VecIds \ {repo.head} : \E k \in VecIds : c \in repo.parents[k]
        /\ Len(vec) = Cardinality(Reachable(repo))

C4_Witness ==
    /\ result = "Ok"
    /\ Len(vec) = 3
    /\ \E i \in DOMAIN vec : parent_count(repo, vec[i].id) >= 2

----------------------------------------------------------------------------
(* C5: for a one-parent commit the file set is the join by path of the     *)
(* status mapping and the parsed numeric mapping: one record per path of   *)
(* the status mapping and no other; a path in both keeps its status and    *)
(* takes the parsed counts; a path only in the status mapping has both     *)
(* counts absent; a path only in the numeric summary is not in the result. *)

C5_JoinByPath ==
    diff # None =>
        LET d == diff[1]
            files == LastEntry.files
        IN  /\ {f.path : f \in files} = StatusPaths(d)
            /\ Cardinality(files) = Cardinality(StatusPaths(d))
            /\ \A f \in files :
                  /\ f.status = StatusOf(d, f.path)
                  /\ IF f.path \in DOMAIN new_files_map
                     THEN /\ f.added_lines = new_files_map[f.path].added_lines
                          /\ f.removed_lines = new_files_map[f.path].removed_lines
                     ELSE f.added_lines = None /\ f.removed_lines = None
            /\ \A k \in DOMAIN numberstats_split(d) :
                  LET caps == re_captures(numberstats_split(d)[k])
                  IN  (caps # None /\ caps[1][3] \notin StatusPaths(d)) =>
                          \A f \in files : f.path # caps[1][3]

C5_Witness ==
    /\ diff # None
    /\ \E f \in LastEntry.files : f.path \in DOMAIN new_files_map /\ f.added_lines = Some(5)
    /\ \E f \in LastEntry.files : f.path \notin DOMAIN new_files_map /\ f.added_lines = None
    /\ \E k \in DOMAIN numberstats_split(diff[1]) :
          /\ re_captures(numberstats_split(diff[1])[k]) # None
          /\ re_captures(numberstats_split(diff[1])[k])[1][3] \notin StatusPaths(diff[1])

----------------------------------------------------------------------------
(* C6: for every summary line of the grammar (digits, a run of spaces or   *)
(* tabs, digits, a run of spaces or tabs, the path as the rest of the      *)
(* line) whose path is a known changed path, the parser's output maps the  *)
(* path to the two counts.  Stated for the runs in which every read       *)
(* succeeds, and for lines whose digit fields have at most nine digits and *)
(* whose path no other line of the summary names.                          *)

C6_GrammarLinesAreParsed ==
    (diff # None /\ failure = "none") =>
        LET d == diff[1]
            lines == numberstats_split(d)
        IN  \A k \in DOMAIN lines :
                LET g == grammar_fields(lines[k])
                IN  (/\ g # None
                     /\ Len(g[1][1]) <= 9 /\ Len(g[1][2]) <= 9
                     /\ g[1][3] \in StatusPaths(d)
                     /\ \A m \in DOMAIN lines :
                           (m # k /\ grammar_fields(lines[m]) # None)
                               => grammar_fields(lines[m])[1][3] # g[1][3])
                    => /\ g[1][3] \in DOMAIN new_files_map
                       /\ new_files_map[g[1][3]].added_lines = Some(DecimalValue(g[1][1]))
                       /\ new_files_map[g[1][3]].removed_lines = Some(DecimalValue(g[1][2]))

----------------------------------------------------------------------------
(* C7: once the repository reader has failed during the walk, walk_history *)
(* has returned Err: it neither goes on nor ends in a panic.  Stated for   *)
(* every failure but that of set_sorting.                                  *)

C7_FailureReturnsErr ==
    failure \notin {"none", "set_sorting"} => result = "Err"

----------------------------------------------------------------------------
(* C8: after the write and the read back through the join, the rows read   *)
(* are exactly the (id, path, status, added, deleted) tuples of the file   *)
(* records of the sequence, each once; commits holds one row per entry and *)
(* commit_files one row per file record; an absent count is stored as NULL *)
(* and read back absent, a count n (0 included) is stored and read as n.   *)

C8_RoundTrip ==
    pc = "done" =>
        LET expected ==
                UNION {{<<vec[i].id, f.path, f.status, f.added_lines, f.removed_lines>> :
                           f \in vec[i].files} : i \in DOMAIN vec}
            read == {<<q.id, q.path, q.status, q.added, q.deleted>> : q \in BagToSet(out)}
        IN  /\ read = expected
            /\ \A q \in BagToSet(out) : CopiesIn(q, out) = 1
            /\ BagCardinality(out) = FileCount(Len(vec))
            /\ BagCardinality(commits_tbl) = Len(vec)
            /\ \A i \in DOMAIN vec :
                  \E r \in BagToSet(commits_tbl) : r.id = vec[i].id /\ CopiesIn(r, commits_tbl) = 1
            /\ BagCardinality(commit_files_tbl) = FileCount(Len(vec))
            /\ \A i \in DOMAIN vec : \A f \in vec[i].files :
                  \E r \in BagToSet(commit_files_tbl) :
                      /\ r.id = vec[i].id /\ r.name = f.path /\ r.status = f.status
                      /\ (f.added_lines = None) <=> (r.added = SqlNull)
                      /\ (f.removed_lines = None) <=> (r.deleted = SqlNull)
                      /\ f.added_lines # None => r.added = SqlInteger(f.added_lines[1])
                      /\ f.removed_lines # None => r.deleted = SqlInteger(f.removed_lines[1])

C8_Witness ==
    /\ pc = "done"
    /\ Len(vec) = 2
    /\ \E q \in BagToSet(out) : q.added = None /\ q.deleted = None
    /\ \E q \in BagToSet(out) : q.added = Some(5) /\ q.deleted = Some(0)

----------------------------------------------------------------------------
(* C9: a summary line that is not of the grammar (the "-" placeholders of  *)
(* a binary file included) is skipped: the parser returns what it returns  *)
(* for the summary without such lines; and when the path of such a line is *)
(* in the status mapping and no line of the grammar names it, the commit   *)
(* has a file record of that path with both counts absent.                 *)

C9_OtherLinesAreSkipped ==
    diff # None =>
        LET d == diff[1]
            lines == numberstats_split(d)
            fm == [p \in StatusPaths(d) |-> FileInfo(p, StatusOf(d, p), None, None)]
        IN  /\ new_files_map = numberstats_lines(EmptyMap, grammar_lines(lines), fm)
            /\ \A k \in DOMAIN lines :
                  (/\ grammar_fields(lines[k]) = None
                   /\ trailing_path(lines[k]) \in StatusPaths(d)
                   /\ \A m \in DOMAIN lines :
                         grammar_fields(lines[m]) # None
                             => grammar_fields(lines[m])[1][3] # trailing_path(lines[k]))
                  => \E f \in LastEntry.files :
                        /\ f.path = trailing_path(lines[k])
                        /\ f.added_lines = None
                        /\ f.removed_lines = None

C9_Witness ==
    /\ diff # None
    /\ \E k \in DOMAIN numberstats_split(diff[1]) : numberstats_split(diff[1])[k] = LineTabBin
    /\ \E f \in LastEntry.files :
          f.path = PathBin /\ f.added_lines = None /\ f.removed_lines = None
    /\ \E f \in LastEntry.files :
          f.path = PathA /\ f.added_lines = Some(5) /\ f.removed_lines = Some(0)

----------------------------------------------------------------------------
(* C10: no row is in commits or commit_files before walk_history has       *)
(* returned Ok with an entry for every commit of the walk; when the walk   *)
(* has failed both relations are empty; and during the walk every commit   *)
(* read so far has its complete entry in the sequence.                     *)

C10_NoRowsBeforeTheWalkSucceeds ==
    /\ (commits_tbl # EmptyBag \/ commit_files_tbl # EmptyBag) =>
          /\ result = "Ok"
          /\ revwalk = <<>>
          /\ Len(vec) = Cardinality(Reachable(repo))
    /\ (result = "Err" \/ (pc = "panic" /\ result = "none")) =>
          commits_tbl = EmptyBag /\ commit_files_tbl = EmptyBag
    /\ pc = "walk" => Len(vec) + Len(revwalk) = Cardinality(Reachable(repo))

C10_Witness ==
    /\ pc = "panic"
    /\ result = "Err"
    /\ failure = "diff_tree_to_tree"
    /\ commits_tbl = EmptyBag
    /\ commit_files_tbl = EmptyBag

====
